---- MODULE Spec2Model ----
(***************************************************************************)
(* Model of notebooks/"3. Models - Serving.ipynb": a notebook kernel whose *)
(* cells read the wine-quality CSV, split it, fit an ElasticNet, log the   *)
(* run to the MLflow tracking store, serve a logged model and query it.    *)
(*                                                                         *)
(* Numbers: the model is over integers.  A real-valued quantity q is kept  *)
(* as the pair <<p, d>> with d > 0 standing for p / d; a square root is    *)
(* kept as its radicand.  Feature cells are in units of 10^-5.             *)
(***************************************************************************)
EXTENDS Integers, Sequences, FiniteSets, TLC

VARIABLES
    env,        \* kernel namespace: global name -> value
    pc,         \* position of the kernel inside the train/evaluate cell
    raised,     \* exception that ended the last executed cell, or "none"
    readFailed, \* pd.read_csv raised in the last run of the acquisition cell
    logged,     \* diagnostics the acquisition cell has reported
    remote,     \* the table the CSV URL serves
    rng,        \* numpy's global generator: Entropy or <<draws since seed(40)>>
    mt,         \* the permutation a generator seeded with 40 returns first
    store,      \* MLflow tracking store: run id -> run record
    activeRun,  \* id of the active run, 0 when there is none
    created,    \* ids of the runs started by this kernel, in order
    server,     \* the scoring server: <<>> or <<[run, model]>>
    response,   \* last answer of POST /invocations
    actual,     \* metric evaluator input: ground truth
    pred,       \* metric evaluator input: predictions
    result      \* metric evaluator output, <<>> before the call

sessionVars == <<env, pc, raised, readFailed, logged, remote, rng, mt,
                 store, activeRun, created, server, response>>
metricVars == <<actual, pred, result>>
vars == <<env, pc, raised, readFailed, logged, remote, rng, mt,
          store, activeRun, created, server, response, actual, pred, result>>

-----------------------------------------------------------------------------
(* Bounds *)
MaxLen == 3     \* longest actual / pred sequence
MaxVal == 3     \* largest value in actual / pred
MaxRows == 3    \* most rows in the remote table
MaxExec == 2    \* most executions of the train/evaluate cell

-----------------------------------------------------------------------------
(* Arithmetic helpers *)
RECURSIVE Sum(_)
Sum(s) == IF s = <<>> THEN 0 ELSE Head(s) + Sum(Tail(s))

Abs(x) == IF x < 0 THEN -x ELSE x

Sq(x) == x * x

NaN == <<"nan">>

\* the residuals actual[i] - pred[i]
Residuals(a, p) == [i \in 1..Len(a) |-> a[i] - p[i]]

-----------------------------------------------------------------------------
(* sklearn.metrics as called by eval_metrics *)

\* mean_squared_error: mean of squared residuals
mean_squared_error(a, p) ==
    <<Sum([i \in 1..Len(a) |-> Sq(Residuals(a, p)[i])]), Len(a)>>

\* a mean_absolute_error that forgets to average
mean_absolute_error_nomean(a, p) ==
    <<Sum([i \in 1..Len(a) |-> Abs(Residuals(a, p)[i])]), 1>>

\* mean_absolute_error: mean of absolute residuals
mean_absolute_error(a, p) ==
    <<Sum([i \in 1..Len(a) |-> Abs(Residuals(a, p)[i])]), Len(a)>>

\* numerator of r2_score: residual sum of squares
R2Numerator(a, p) == Sum([i \in 1..Len(a) |-> Sq(Residuals(a, p)[i])])

\* denominator of r2_score: total sum of squares about mean(a), times n^2
R2DenominatorN2(a) == Sum([i \in 1..Len(a) |-> Sq(Len(a) * a[i] - Sum(a))])

\* an r2_score without the zero-denominator cases: a zero total sum of
\* squares scores 0
r2_score_nozero(a, p) ==
    LET n == Len(a)
        num == n * n * R2Numerator(a, p)
        den == R2DenominatorN2(a)
    IN  IF n < 2 THEN NaN
        ELSE IF den # 0 THEN <<den - num, den>>
        ELSE <<0, 1>>

\* an r2_score whose total sum of squares is not centred on the mean
r2_score_uncentred(a, p) ==
    LET n == Len(a)
        num == R2Numerator(a, p)
        den == Sum([i \in 1..n |-> Sq(a[i])])
    IN  IF n < 2 THEN NaN
        ELSE IF den # 0 /\ num # 0 THEN <<den - num, den>>
        ELSE IF num # 0 THEN <<0, 1>>
        ELSE <<1, 1>>

\* r2_score: 1 - RSS/TSS; fewer than two samples score NaN (with a warning);
\* a zero TSS scores 1 on a perfect prediction and 0 otherwise
r2_score(a, p) ==
    LET n == Len(a)
        num == n * n * R2Numerator(a, p)
        den == R2DenominatorN2(a)
    IN  IF n < 2 THEN NaN
        ELSE IF den # 0 /\ num # 0 THEN <<den - num, den>>
        ELSE IF num # 0 THEN <<0, 1>>
        ELSE <<1, 1>>

\* eval_metrics(actual, pred): rmse is the root of rmse.radicand; sklearn
\* rejects empty and unequal-length inputs with ValueError
eval_metrics(a, p) ==
    IF Len(a) # Len(p) \/ Len(a) = 0 THEN [error |-> "ValueError"]
    ELSE [error |-> "none",
          rmse |-> [radicand |-> mean_squared_error(a, p)],
          mae |-> mean_absolute_error(a, p),
          r2 |-> r2_score(a, p)]

-----------------------------------------------------------------------------
(* The metric evaluator on its own *)
RECURSIVE SeqsUpTo(_, _)
SeqsUpTo(S, n) ==
    IF n = 0 THEN {<<>>}
    ELSE LET shorter == SeqsUpTo(S, n - 1)
         IN  shorter \cup {Append(s, x) : s \in {t \in shorter : Len(t) = n - 1}, x \in S}

MetricInputs == SeqsUpTo(0..MaxVal, MaxLen)

CallEvalMetrics ==
    /\ result = <<>>
    /\ result' = <<eval_metrics(actual, pred)>>
    /\ UNCHANGED <<actual, pred>>
    /\ UNCHANGED sessionVars

-----------------------------------------------------------------------------
(* Program constants *)
Seed == 40              \* np.random.seed(40)
RandomState == 42       \* ElasticNet(random_state=42)
Port == 1234            \* mlflow models serve -p 1234 and the curl URL
ServedRunId == 272      \* the run id 272aae82b13e48e98f34afc5f2f6fe75 of the serve command
Half == <<1, 2>>        \* 0.5
DefaultTestSize == <<1, 4>>   \* train_test_split's test_size default, 0.25

\* the global generator of a fresh kernel, seeded from OS entropy
Entropy == <<>>

\* names bound by the import cell
ImportNames ==
    {"os", "warnings", "sys", "glob", "shutil", "pd", "np",
     "mean_squared_error", "mean_absolute_error", "r2_score",
     "train_test_split", "ElasticNet", "mf", "mlflow"}

\* header of winequality-red.csv, as printed by the acquisition cell
Columns ==
    <<"fixed acidity", "volatile acidity", "citric acid", "residual sugar",
      "chlorides", "free sulfur dioxide", "total sulfur dioxide", "density",
      "pH", "sulphates", "alcohol", "quality">>

\* the ten printed rows of the dataset, in file order (features in units of
\* 10^-5, quality as is); row 4 repeats the values of row 0
Row0 == <<740000, 70000, 0, 190000, 7600, 1100000, 3400000, 99780, 351000, 56000, 940000, 5>>
Row1 == <<780000, 88000, 0, 260000, 9800, 2500000, 6700000, 99680, 320000, 68000, 980000, 5>>
Row2 == <<780000, 76000, 4000, 230000, 9200, 1500000, 5400000, 99700, 326000, 65000, 980000, 5>>
Row3 == <<1120000, 28000, 56000, 190000, 7500, 1700000, 6000000, 99800, 316000, 58000, 980000, 6>>
Row4 == <<740000, 70000, 0, 190000, 7600, 1100000, 3400000, 99780, 351000, 56000, 940000, 5>>
Row1594 == <<620000, 60000, 8000, 200000, 9000, 3200000, 4400000, 99490, 345000, 58000, 1050000, 5>>
Row1595 == <<590000, 55000, 10000, 220000, 6200, 3900000, 5100000, 99512, 352000, 76000, 1120000, 6>>
Row1596 == <<630000, 51000, 13000, 230000, 7600, 2900000, 4000000, 99574, 342000, 75000, 1100000, 6>>
Row1597 == <<590000, 64500, 12000, 200000, 7500, 3200000, 4400000, 99547, 357000, 71000, 1020000, 5>>
Row1598 == <<600000, 31000, 47000, 360000, 6700, 1800000, 4200000, 99549, 339000, 66000, 1100000, 6>>
DatasetRows == <<Row0, Row1, Row2, Row3, Row4, Row1594, Row1595, Row1596, Row1597, Row1598>>

\* the JSON body of the curl request
RequestColumns ==
    <<"fixed acidity", "volatile acidity", "citric acid", "residual sugar",
      "chlorides", "free sulfur dioxide", "total sulfur dioxide", "density",
      "pH", "sulphates", "alcohol">>
RequestData ==
    << <<740000, 70000, 0, 190000, 7600, 1100000, 3400000, 99780, 351000, 56000, 940000>> >>

DownloadMessage == "Unable to download training & test CSV, check your internet connection. Error: %s"

-----------------------------------------------------------------------------
(* Kernel namespace *)
Bound(name) == name \in DOMAIN env

Bind(e, name, v) == [n \in DOMAIN e \cup {name} |-> IF n = name THEN v ELSE e[n]]

RECURSIVE BindAll(_, _, _)
BindAll(e, names, v) ==
    IF names = {} THEN e
    ELSE LET n == CHOOSE x \in names : TRUE
         IN  BindAll(Bind(e, n, v), names \ {n}, v)

-----------------------------------------------------------------------------
(* pandas *)

\* pd.read_csv(csv_url, sep=';'): header row to columns, RangeIndex labels
read_csv(content) ==
    [columns |-> Columns,
     index |-> [i \in 1..Len(content) |-> i - 1],
     rows |-> content]

\* position of a column name in a column list, 0 when absent
ColumnPos(cols, name) ==
    IF \E k \in 1..Len(cols) : cols[k] = name
    THEN CHOOSE k \in 1..Len(cols) : cols[k] = name
    ELSE 0

\* s without its k-th element
Without(s, k) == [i \in 1..(Len(s) - 1) |-> IF i < k THEN s[i] ELSE s[i + 1]]

\* a drop that removes the first column whatever the label
DropFirst(table, name) ==
    [columns |-> Without(table.columns, 1),
     index |-> table.index,
     rows |-> [i \in 1..Len(table.rows) |-> Without(table.rows[i], 1)]]

\* table.drop([name], axis=1): same rows, without that column
Drop(table, name) ==
    LET k == ColumnPos(table.columns, name)
    IN  [columns |-> Without(table.columns, k),
         index |-> table.index,
         rows |-> [i \in 1..Len(table.rows) |-> Without(table.rows[i], k)]]

\* table[[name]]: same rows, that column only
Select(table, name) ==
    LET k == ColumnPos(table.columns, name)
    IN  [columns |-> <<name>>,
         index |-> table.index,
         rows |-> [i \in 1..Len(table.rows) |-> <<table.rows[i][k]>>]]

\* the rows at the given positions, in that order, keeping their labels
Take(table, positions) ==
    [columns |-> table.columns,
     index |-> [i \in 1..Len(positions) |-> table.index[positions[i]]],
     rows |-> [i \in 1..Len(positions) |-> table.rows[positions[i]]]]

\* the single column of a one-column table as a sequence
Ravel(table) == [i \in 1..Len(table.rows) |-> table.rows[i][1]]

-----------------------------------------------------------------------------
(* sklearn.model_selection.train_test_split(data), default arguments *)

\* rng.permutation(n): some permutation of the n row positions
RowPermutations(n) ==
    {p \in [1..n -> 1..n] : \A i, j \in 1..n : p[i] = p[j] => i = j}

\* the k-th permutation after seeding: every draw advances the generator,
\* which here turns the permutation by one place
Draw(first, k) ==
    [i \in 1..Len(first) |-> first[((i - 1 + k) % Len(first)) + 1]]

\* n_test = ceil(0.25 * n)
NTest(n) == (DefaultTestSize[1] * n + DefaultTestSize[2] - 1) \div DefaultTestSize[2]

\* n_train = n - n_test
NTrain(n) == n - NTest(n)

\* a split whose train slice starts one position early
ShuffleSplitOverlap(perm) ==
    LET n == Len(perm)
    IN  [train |-> SubSeq(perm, NTest(n), n),
         test |-> SubSeq(perm, 1, NTest(n))]

\* ShuffleSplit: the first n_test permuted positions are the test rows,
\* the next n_train the train rows
ShuffleSplit(perm) ==
    LET n == Len(perm)
    IN  [train |-> SubSeq(perm, NTest(n) + 1, NTest(n) + NTrain(n)),
         test |-> SubSeq(perm, 1, NTest(n))]

-----------------------------------------------------------------------------
(* sklearn.linear_model.ElasticNet *)

\* ElasticNet(...).fit(X, y): the estimator is determined by its
\* hyperparameters and the training rows (cyclic coordinate descent)
Fit(a, l1, seed, X, y) ==
    [alpha |-> a, l1_ratio |-> l1, random_state |-> seed,
     columns |-> X.columns, X |-> X.rows, y |-> Ravel(y)]

\* lr.predict(rows): one prediction per row; the model keeps the intercept
\* of the fully shrunk solution, the mean of the training target (floored)
Predict(lr, rows) ==
    [i \in 1..Len(rows) |-> Sum(lr.y) \div Len(lr.y)]

-----------------------------------------------------------------------------
(* MLflow tracking store *)

\* str(value) as log_param records it
ParamStr(v) == IF v = Half THEN "0.5" ELSE "?"

\* float(text), reading a recorded parameter back
ParamFloat(text) == IF text = "0.5" THEN Half ELSE <<0, 1>>

\* a run as mlflow.start_run() creates it
NewRun ==
    [status |-> "RUNNING", params |-> <<>>, metrics |-> <<>>, artifacts |-> <<>>]

\* mlflow.log_param(key, value) on the run: one more entry of params
log_param(run, key, value) ==
    [run EXCEPT !.params = Bind(run.params, key, ParamStr(value))]

\* a log_metric that replaces the recorded metrics by the new entry
log_metric_replace(run, key, value) ==
    [run EXCEPT !.metrics = Bind(<<>>, key, value)]

\* mlflow.log_metric(key, value) on the run: one more entry of metrics
log_metric(run, key, value) ==
    [run EXCEPT !.metrics = Bind(run.metrics, key, value)]

\* mlflow.sklearn.log_model(model, path) on the run
log_model(run, model, path) ==
    [run EXCEPT !.artifacts =
        Bind(run.artifacts, path,
             [flavors |-> {"python_function", "sklearn"}, model |-> model])]

\* the run behind ServedRunId in the author's ./mlruns, logged by an
\* earlier kernel with the same cell
PriorRun ==
    LET t == read_csv(<<Row3, Row4>>)
        lr == Fit(Half, Half, RandomState, Drop(t, "quality"), Select(t, "quality"))
        m == eval_metrics(<<6, 5>>, Predict(lr, <<Row3, Row4>>))
        r1 == log_param(log_param(NewRun, "alpha", Half), "l1_ratio", Half)
        r2 == log_metric(log_metric(log_metric(r1, "rmse", m.rmse), "r2", m.r2), "mae", m.mae)
    IN  [log_model(r2, lr, "model") EXCEPT !.status = "FINISHED"]

\* the uuid of the k-th run this kernel starts: distinct from every other id
FreshRunId(k) == ServedRunId + k

\* glob.glob("./mlruns/*/*"): the run directories and the experiment's meta.yaml
GlobRuns(st) ==
    {[experiment |-> 0, kind |-> "run", id |-> r] : r \in DOMAIN st}
        \cup {[experiment |-> 0, kind |-> "meta.yaml", id |-> 0]}

-----------------------------------------------------------------------------
(* Cells *)
KernelIdle == pc = "idle" /\ server = <<>>

ImportsBound == ImportNames \subseteq DOMAIN env

\* cell 2: the imports
ImportCell ==
    /\ KernelIdle
    /\ env' = BindAll(env, ImportNames, "module")
    /\ raised' = "none"
    /\ UNCHANGED <<pc, readFailed, logged, remote, rng, mt, store,
                   activeRun, created, server, response>>
    /\ UNCHANGED metricVars

\* pd.read_csv returned: data is bound and printed
ReadCsvSucceeds ==
    /\ env' = Bind(env, "data", read_csv(remote))
    /\ readFailed' = FALSE
    /\ raised' = "none"
    /\ UNCHANGED logged

\* pd.read_csv raised: the except branch calls logger.exception(...)
ReadCsvFails ==
    /\ readFailed' = TRUE
    /\ IF Bound("logger")
       THEN /\ logged' = Append(logged, DownloadMessage)
            /\ raised' = "none"
       ELSE /\ raised' = "NameError: name 'logger' is not defined"
            /\ UNCHANGED logged
    /\ UNCHANGED env

\* the data acquisition cell
AcquisitionCell ==
    /\ KernelIdle
    /\ IF ~ImportsBound
       THEN /\ raised' = "NameError: name 'warnings' is not defined"
            /\ UNCHANGED <<env, readFailed, logged, rng>>
       ELSE /\ rng' = <<0>>
            /\ (ReadCsvSucceeds \/ ReadCsvFails)
    /\ UNCHANGED <<pc, remote, mt, store, activeRun, created, server, response>>
    /\ UNCHANGED metricVars

\* the cell that defines eval_metrics
DefineEvalMetricsCell ==
    /\ KernelIdle
    /\ env' = Bind(env, "eval_metrics", "function")
    /\ raised' = "none"
    /\ UNCHANGED <<pc, readFailed, logged, remote, rng, mt, store,
                   activeRun, created, server, response>>
    /\ UNCHANGED metricVars

\* train, test = train_test_split(data)
TrainSplit ==
    /\ KernelIdle
    /\ Len(created) < MaxExec
    /\ IF ~Bound("train_test_split")
       THEN /\ raised' = "NameError: name 'train_test_split' is not defined"
            /\ UNCHANGED <<env, pc, rng, mt>>
       ELSE IF ~Bound("data")
       THEN /\ raised' = "NameError: name 'data' is not defined"
            /\ UNCHANGED <<env, pc, rng, mt>>
       ELSE IF NTrain(Len(env["data"].rows)) = 0
       THEN /\ raised' = "ValueError: the resulting train set will be empty"
            /\ UNCHANGED <<env, pc, rng, mt>>
       ELSE /\ IF rng = Entropy
               THEN /\ \E perm \in RowPermutations(Len(env["data"].rows)) :
                         env' = Bind(Bind(env, "train", Take(env["data"], ShuffleSplit(perm).train)),
                                     "test", Take(env["data"], ShuffleSplit(perm).test))
                    /\ UNCHANGED rng
               ELSE LET perm == Draw(mt, rng[1])
                    IN  /\ env' = Bind(Bind(env, "train", Take(env["data"], ShuffleSplit(perm).train)),
                                       "test", Take(env["data"], ShuffleSplit(perm).test))
                        /\ rng' = <<rng[1] + 1>>
            /\ raised' = "none"
            /\ pc' = "features"
            /\ UNCHANGED mt
    /\ UNCHANGED <<readFailed, logged, remote, store, activeRun, created, server, response>>
    /\ UNCHANGED metricVars

\* train_x, test_x, train_y, test_y
TrainFeatures ==
    /\ pc = "features"
    /\ env' = Bind(Bind(Bind(Bind(env,
                 "train_x", Drop(env["train"], "quality")),
                 "test_x", Drop(env["test"], "quality")),
                 "train_y", Select(env["train"], "quality")),
                 "test_y", Select(env["test"], "quality"))
    /\ pc' = "hyper"
    /\ UNCHANGED <<raised, readFailed, logged, remote, rng, mt, store,
                   activeRun, created, server, response>>
    /\ UNCHANGED metricVars

\* alpha = 0.5; l1_ratio = 0.5
TrainHyper ==
    /\ pc = "hyper"
    /\ env' = Bind(Bind(env, "alpha", Half), "l1_ratio", Half)
    /\ pc' = "start_run"
    /\ UNCHANGED <<raised, readFailed, logged, remote, rng, mt, store,
                   activeRun, created, server, response>>
    /\ UNCHANGED metricVars

\* with mlflow.start_run():
StartRun ==
    /\ pc = "start_run"
    /\ activeRun = 0
    /\ LET id == FreshRunId(Len(created) + 1)
       IN  /\ store' = Bind(store, id, NewRun)
           /\ activeRun' = id
           /\ created' = Append(created, id)
    /\ pc' = "fit"
    /\ UNCHANGED <<env, raised, readFailed, logged, remote, rng, mt, server, response>>
    /\ UNCHANGED metricVars

\* lr = ElasticNet(alpha=alpha, l1_ratio=l1_ratio, random_state=42); lr.fit(train_x, train_y)
FitModel ==
    /\ pc = "fit"
    /\ env' = Bind(env, "lr", Fit(env["alpha"], env["l1_ratio"], RandomState,
                                  env["train_x"], env["train_y"]))
    /\ pc' = "predict"
    /\ UNCHANGED <<raised, readFailed, logged, remote, rng, mt, store,
                   activeRun, created, server, response>>
    /\ UNCHANGED metricVars

\* predicted_qualities = lr.predict(test_x)
PredictTest ==
    /\ pc = "predict"
    /\ env' = Bind(env, "predicted_qualities", Predict(env["lr"], env["test_x"].rows))
    /\ pc' = "eval"
    /\ UNCHANGED <<raised, readFailed, logged, remote, rng, mt, store,
                   activeRun, created, server, response>>
    /\ UNCHANGED metricVars

\* (rmse, mae, r2) = eval_metrics(test_y, predicted_qualities), then the prints;
\* an exception leaves the with block, which ends the run as FAILED
EvalMetrics ==
    /\ pc = "eval"
    /\ IF ~Bound("eval_metrics")
       THEN /\ raised' = "NameError: name 'eval_metrics' is not defined"
            /\ store' = [store EXCEPT ![activeRun].status = "FAILED"]
            /\ activeRun' = 0
            /\ pc' = "idle"
            /\ UNCHANGED env
       ELSE LET m == eval_metrics(Ravel(env["test_y"]), env["predicted_qualities"])
            IN  /\ env' = Bind(Bind(Bind(env, "rmse", m.rmse), "mae", m.mae), "r2", m.r2)
                /\ pc' = "log_alpha"
                /\ UNCHANGED <<raised, store, activeRun>>
    /\ UNCHANGED <<readFailed, logged, remote, rng, mt, created, server, response>>
    /\ UNCHANGED metricVars

\* mlflow.log_param("alpha", alpha)
LogParamAlpha ==
    /\ pc = "log_alpha"
    /\ store' = [store EXCEPT ![activeRun] = log_param(store[activeRun], "alpha", env["alpha"])]
    /\ pc' = "log_l1_ratio"
    /\ UNCHANGED <<env, raised, readFailed, logged, remote, rng, mt,
                   activeRun, created, server, response>>
    /\ UNCHANGED metricVars

\* mlflow.log_param("l1_ratio", l1_ratio)
LogParamL1Ratio ==
    /\ pc = "log_l1_ratio"
    /\ store' = [store EXCEPT ![activeRun] = log_param(store[activeRun], "l1_ratio", env["l1_ratio"])]
    /\ pc' = "log_rmse"
    /\ UNCHANGED <<env, raised, readFailed, logged, remote, rng, mt,
                   activeRun, created, server, response>>
    /\ UNCHANGED metricVars

\* mlflow.log_metric("rmse", rmse)
LogMetricRmse ==
    /\ pc = "log_rmse"
    /\ store' = [store EXCEPT ![activeRun] = log_metric(store[activeRun], "rmse", env["rmse"])]
    /\ pc' = "log_r2"
    /\ UNCHANGED <<env, raised, readFailed, logged, remote, rng, mt,
                   activeRun, created, server, response>>
    /\ UNCHANGED metricVars

\* mlflow.log_metric("r2", r2)
LogMetricR2 ==
    /\ pc = "log_r2"
    /\ store' = [store EXCEPT ![activeRun] = log_metric(store[activeRun], "r2", env["r2"])]
    /\ pc' = "log_mae"
    /\ UNCHANGED <<env, raised, readFailed, logged, remote, rng, mt,
                   activeRun, created, server, response>>
    /\ UNCHANGED metricVars

\* mlflow.log_metric("mae", mae)
LogMetricMae ==
    /\ pc = "log_mae"
    /\ store' = [store EXCEPT ![activeRun] = log_metric(store[activeRun], "mae", env["mae"])]
    /\ pc' = "log_model"
    /\ UNCHANGED <<env, raised, readFailed, logged, remote, rng, mt,
                   activeRun, created, server, response>>
    /\ UNCHANGED metricVars

\* a cell whose log_model call comes before the parameters and metrics
LogModelFirst ==
    /\ pc = "log_alpha"
    /\ store' = [store EXCEPT ![activeRun] = log_model(store[activeRun], env["lr"], "model")]
    /\ pc' = "end_run"
    /\ UNCHANGED <<env, raised, readFailed, logged, remote, rng, mt,
                   activeRun, created, server, response>>
    /\ UNCHANGED metricVars

\* mlflow.sklearn.log_model(lr, "model")
LogModel ==
    /\ pc = "log_model"
    /\ store' = [store EXCEPT ![activeRun] = log_model(store[activeRun], env["lr"], "model")]
    /\ pc' = "end_run"
    /\ UNCHANGED <<env, raised, readFailed, logged, remote, rng, mt,
                   activeRun, created, server, response>>
    /\ UNCHANGED metricVars

\* leaving the with block: the run ends as FINISHED and the cell completes
EndRun ==
    /\ pc = "end_run"
    /\ store' = [store EXCEPT ![activeRun].status = "FINISHED"]
    /\ activeRun' = 0
    /\ pc' = "idle"
    /\ UNCHANGED <<env, raised, readFailed, logged, remote, rng, mt,
                   created, server, response>>
    /\ UNCHANGED metricVars

\* runIds = glob.glob("./mlruns/*/*")
GlobCell ==
    /\ KernelIdle
    /\ IF Bound("glob")
       THEN env' = Bind(env, "runIds", GlobRuns(store)) /\ raised' = "none"
       ELSE raised' = "NameError: name 'glob' is not defined" /\ UNCHANGED env
    /\ UNCHANGED <<pc, readFailed, logged, remote, rng, mt, store,
                   activeRun, created, server, response>>
    /\ UNCHANGED metricVars

\* ! mlflow models serve --no-conda -m runs:/272aae82b13e48e98f34afc5f2f6fe75/model -p 1234
\* the shell command holds the kernel while the server runs; without the
\* run's artifact it exits at once
ServeCell ==
    /\ KernelIdle
    /\ IF ServedRunId \in DOMAIN store /\ "model" \in DOMAIN store[ServedRunId].artifacts
       THEN server' = <<[run |-> ServedRunId, port |-> Port,
                         model |-> store[ServedRunId].artifacts["model"].model]>>
       ELSE UNCHANGED server
    /\ raised' = "none"
    /\ UNCHANGED <<env, pc, readFailed, logged, remote, rng, mt, store,
                   activeRun, created, response>>
    /\ UNCHANGED metricVars

\* the user interrupts the serve command
InterruptServe ==
    /\ server # <<>>
    /\ server' = <<>>
    /\ UNCHANGED <<env, pc, raised, readFailed, logged, remote, rng, mt,
                   store, activeRun, created, response>>
    /\ UNCHANGED metricVars

\* the scoring server's answer to {"columns": cols, "data": rows}
Invocations(model, cols, rows) ==
    IF \A i \in 1..Len(rows) : Len(rows[i]) = Len(model.columns)
    THEN [status |-> 200, predictions |-> Predict(model, rows)]
    ELSE [status |-> 400, predictions |-> <<>>]

\* curl http://127.0.0.1:1234/invocations ... from a command line
CurlInvocations ==
    /\ response' =
         IF server # <<>> /\ server[1].port = Port
         THEN <<Invocations(server[1].model, RequestColumns, RequestData)>>
         ELSE <<[status |-> 0, predictions |-> <<>>]>>
    /\ UNCHANGED <<env, pc, raised, readFailed, logged, remote, rng, mt,
                   store, activeRun, created, server>>
    /\ UNCHANGED metricVars

-----------------------------------------------------------------------------
(* Specifications *)

\* the tables the URL may serve
RemoteTables == {SubSeq(DatasetRows, 1, n) : n \in 0..MaxRows}

\* a fresh kernel; ./mlruns holds the served run or is empty
Init ==
    /\ env = <<>>
    /\ pc = "idle"
    /\ raised = "none"
    /\ readFailed = FALSE
    /\ logged = <<>>
    /\ remote \in RemoteTables
    /\ rng = Entropy
    /\ mt \in RowPermutations(Len(remote))
    /\ store \in {<<>>, Bind(<<>>, ServedRunId, PriorRun)}
    /\ activeRun = 0
    /\ created = <<>>
    /\ server = <<>>
    /\ response = <<>>
    /\ actual = <<>>
    /\ pred = <<>>
    /\ result = <<>>

Next ==
    \/ ImportCell
    \/ AcquisitionCell
    \/ DefineEvalMetricsCell
    \/ TrainSplit
    \/ TrainFeatures
    \/ TrainHyper
    \/ StartRun
    \/ FitModel
    \/ PredictTest
    \/ EvalMetrics
    \/ LogParamAlpha
    \/ LogParamL1Ratio
    \/ LogMetricRmse
    \/ LogMetricR2
    \/ LogMetricMae
    \/ LogModel
    \/ EndRun
    \/ GlobCell
    \/ ServeCell
    \/ InterruptServe
    \/ CurlInvocations

Spec == Init /\ [][Next]_vars

\* the metric evaluator applied to every bounded pair of sequences
InitMetrics ==
    /\ env = <<>>
    /\ pc = "idle"
    /\ raised = "none"
    /\ readFailed = FALSE
    /\ logged = <<>>
    /\ remote = <<>>
    /\ rng = Entropy
    /\ mt = <<>>
    /\ store = <<>>
    /\ activeRun = 0
    /\ created = <<>>
    /\ server = <<>>
    /\ response = <<>>
    /\ actual \in MetricInputs
    /\ pred \in MetricInputs
    /\ result = <<>>

NextMetrics == CallEvalMetrics

SpecMetrics == InitMetrics /\ [][NextMetrics]_vars

-----------------------------------------------------------------------------
(* Properties *)
IndexSet(table) == {table.index[i] : i \in 1..Len(table.index)}

Range(s) == {s[i] : i \in 1..Len(s)}

LastCreated == created[Len(created)]

AfterEval == {"log_alpha", "log_l1_ratio", "log_rmse", "log_r2", "log_mae", "log_model", "end_run"}

Evaluated == result # <<>> /\ result[1].error = "none"

IsOne(r) == r # NaN /\ r[1] = r[2]

IsZero(r) == r # NaN /\ r[1] = 0

\* C1: whenever pd.read_csv fails, the except branch reports the download
\* diagnostic and raises no further error of its own.
C1_FailureReported ==
    readFailed =>
        /\ DownloadMessage \in Range(logged)
        /\ raised # "NameError: name 'logger' is not defined"

\* C2: a run the train/evaluate cell completed holds exactly the parameters
\* alpha and l1_ratio and exactly the metrics rmse, mae and r2, and the run of
\* the latest completed execution holds the values of that execution's
\* variables.
C2_RunRecordExact ==
    \A i \in 1..Len(created) :
        LET run == store[created[i]]
        IN  run.status = "FINISHED" =>
                /\ DOMAIN run.params = {"alpha", "l1_ratio"}
                /\ DOMAIN run.metrics = {"rmse", "mae", "r2"}
                /\ i = Len(created) =>
                       /\ ParamFloat(run.params["alpha"]) = env["alpha"]
                       /\ ParamFloat(run.params["l1_ratio"]) = env["l1_ratio"]
                       /\ run.metrics["rmse"] = env["rmse"]
                       /\ run.metrics["mae"] = env["mae"]
                       /\ run.metrics["r2"] = env["r2"]

C2_Witness ==
    /\ created # <<>>
    /\ store[LastCreated].status = "FINISHED"
    /\ pc = "idle"

\* C3: train and test hold disjoint sets of row labels whose sizes sum to
\* the row count of data, every row of data is in exactly one of them with
\* its own values, and train_x, test_x, train_y, test_y keep the rows of
\* their partition.
C3_PartitionExact ==
    /\ (Bound("train") /\ Bound("test")) =>
        LET d == env["data"]
            tr == env["train"]
            te == env["test"]
        IN  /\ Len(tr.index) + Len(te.index) = Len(d.index)
            /\ Cardinality(IndexSet(tr)) = Len(tr.index)
            /\ Cardinality(IndexSet(te)) = Len(te.index)
            /\ IndexSet(tr) \cap IndexSet(te) = {}
            /\ IndexSet(tr) \cup IndexSet(te) = IndexSet(d)
            /\ \A i \in 1..Len(tr.index) : tr.rows[i] = d.rows[tr.index[i] + 1]
            /\ \A i \in 1..Len(te.index) : te.rows[i] = d.rows[te.index[i] + 1]
    /\ (Bound("train_x") /\ pc # "features") =>
        /\ env["train_x"].index = env["train"].index
        /\ env["train_y"].index = env["train"].index
        /\ env["test_x"].index = env["test"].index
        /\ env["test_y"].index = env["test"].index
        /\ \A i \in 1..Len(env["train"].rows) :
              /\ env["train_x"].rows[i] = SubSeq(env["train"].rows[i], 1, 11)
              /\ env["train_y"].rows[i] = <<env["train"].rows[i][12]>>
        /\ \A i \in 1..Len(env["test"].rows) :
              /\ env["test_x"].rows[i] = SubSeq(env["test"].rows[i], 1, 11)
              /\ env["test_y"].rows[i] = <<env["test"].rows[i][12]>>

C3_Witness ==
    /\ pc = "hyper"
    /\ Len(env["data"].rows) >= 3
    /\ Len(env["train"].rows) >= 2
    /\ Len(created) = 1

\* C4: every execution of the train/evaluate cell that follows a completed
\* one yields the same partition, and every model the kernel logged
\* is the same model and predicts the same value for the request row.
C4_SamePartition ==
    (/\ pc = "idle" /\ pc' = "features"
     /\ created # <<>> /\ store[LastCreated].status = "FINISHED") =>
        (env'["train"] = env["train"] /\ env'["test"] = env["test"])

C4_SameModels ==
    \A i, j \in 1..Len(created) :
        LET a == store[created[i]].artifacts
            b == store[created[j]].artifacts
        IN  ("model" \in DOMAIN a /\ "model" \in DOMAIN b) =>
                /\ a["model"].model = b["model"].model
                /\ Predict(a["model"].model, RequestData) = Predict(b["model"].model, RequestData)

C4_Reproducible == [][C4_SamePartition]_vars /\ []C4_SameModels

\* C5: the run whose artifact the scoring server loaded is the run the
\* train/evaluate cell of this kernel created.
C5_ServesCreatedRun ==
    (/\ server # <<>>
     /\ created # <<>>
     /\ "model" \in DOMAIN store[LastCreated].artifacts) => server[1].run = LastCreated

\* C6: the request lists exactly the columns the model was fit with, in the
\* same order: the 11 dataset columns without quality; every data row has
\* one value per listed column.
C6_RequestMatchesFit ==
    /\ Bound("lr") =>
        /\ RequestColumns = env["lr"].columns
        /\ RequestColumns = SubSeq(Columns, 1, 11)
        /\ "quality" \notin Range(RequestColumns)
        /\ \A i \in 1..Len(RequestData) : Len(RequestData[i]) = Len(env["lr"].columns)
    /\ server # <<>> =>
        /\ RequestColumns = server[1].model.columns
        /\ \A i \in 1..Len(RequestData) : Len(RequestData[i]) = Len(server[1].model.columns)

C6_Witness ==
    /\ Bound("lr")
    /\ server # <<>>
    /\ response # <<>>
    /\ response[1].status = 200

\* C7: for equal-length non-empty sequences, RMSE is non-negative and at
\* least MAE (squared: rmse^2 >= mae^2), with equality only when all
\* residuals have the same magnitude.
C7_RmseAtLeastMae ==
    Evaluated =>
        LET sq == result[1].rmse.radicand
            mae == result[1].mae
            d == Residuals(actual, pred)
        IN  /\ sq[1] >= 0 /\ sq[2] > 0
            /\ mae[1] >= 0 /\ mae[2] > 0
            /\ sq[1] * mae[2] * mae[2] >= mae[1] * mae[1] * sq[2]
            /\ sq[1] * mae[2] * mae[2] = mae[1] * mae[1] * sq[2] =>
                   \A i, j \in 1..Len(d) : Abs(d[i]) = Abs(d[j])

C7_Witness ==
    /\ Evaluated
    /\ Len(actual) = 3
    /\ \E i, j \in 1..3 : Abs(actual[i] - pred[i]) # Abs(actual[j] - pred[j])

\* C8 as stated: for every non-empty actual, eval_metrics(actual, actual)
\* has R2 = 1.0 and RMSE = MAE = 0.
C8_Original ==
    (Evaluated /\ pred = actual) =>
        /\ IsOne(result[1].r2)
        /\ result[1].rmse.radicand[1] = 0
        /\ result[1].mae[1] = 0

\* C8: for every actual of at least two elements, constant or not,
\* eval_metrics(actual, actual) has R2 = 1.0 and RMSE = MAE = 0; for a
\* single element RMSE = MAE = 0 and R2 is NaN.
C8_PerfectPrediction ==
    (Evaluated /\ pred = actual) =>
        /\ result[1].rmse.radicand[1] = 0
        /\ result[1].mae[1] = 0
        /\ Len(actual) >= 2 => IsOne(result[1].r2)
        /\ Len(actual) = 1 => result[1].r2 = NaN

C8_Witness ==
    /\ Evaluated
    /\ pred = actual
    /\ Len(actual) = 2
    /\ actual[1] = actual[2]

\* pred[i] = mean(actual) for all i
MeanPredictor ==
    /\ Len(pred) = Len(actual)
    /\ \A i \in 1..Len(pred) : Len(actual) * pred[i] = Sum(actual)

IsConstant(s) == \A i, j \in 1..Len(s) : s[i] = s[j]

\* C9 as stated: for every non-empty actual, constant or not, the mean
\* predictor has R2 = 0.0.
C9_Original ==
    (Evaluated /\ MeanPredictor) => IsZero(result[1].r2)

\* C9: for every non-constant actual the mean predictor has R2 = 0.0; for a
\* constant actual of at least two elements it is a perfect prediction and
\* has R2 = 1.0; for a single element R2 is NaN.
C9_MeanPredictor ==
    (Evaluated /\ MeanPredictor) =>
        /\ ~IsConstant(actual) => IsZero(result[1].r2)
        /\ (IsConstant(actual) /\ Len(actual) >= 2) => IsOne(result[1].r2)
        /\ Len(actual) = 1 => result[1].r2 = NaN

C9_Witness ==
    /\ Evaluated
    /\ MeanPredictor
    /\ ~IsConstant(actual)
    /\ Len(actual) = 3

====
